---- MODULE Spec2Model ----
(***************************************************************************)
(* Model of the companies CRUD API                                         *)
(* (src/backend/app/apis/companies_api/__init__.py).                       *)
(*                                                                         *)
(* Strings that the code transforms (dictionary keys) are sequences of     *)
(* one-character strings, so that the two regular-expression based case    *)
(* conversions are computed rather than assumed.  A dictionary is a        *)
(* function whose domain is a set of such keys.  A Python value is a       *)
(* record [t |-> <type>, v |-> <payload>].                                 *)
(*                                                                         *)
(* The store is the committed content of table "companies"; each open      *)
(* connection works on its own transaction (psycopg2 connections are not   *)
(* in autocommit mode), whose writes become visible to other connections   *)
(* only at conn.commit() and are discarded by conn.close().                *)
(***************************************************************************)
EXTENDS Integers, Sequences, FiniteSets, TLC

\* ------------------------------------------------------------------ bounds
\* rows the table may hold when the service starts
MaxRows == 2
\* request fields a client sets at will: the first MaxFields of FieldOrder
MaxFields == 2
\* calls of datetime.now() in a behaviour
MaxClock == 1
\* keys of a dictionary handed to row_to_camel_dict on its own
MaxDictKeys == 3

\* ------------------------------------------------------------- characters
LowerChars ==
  << "a", "b", "c", "d", "e", "f", "g", "h", "i", "j", "k", "l", "m",
     "n", "o", "p", "q", "r", "s", "t", "u", "v", "w", "x", "y", "z" >>

UpperChars ==
  << "A", "B", "C", "D", "E", "F", "G", "H", "I", "J", "K", "L", "M",
     "N", "O", "P", "Q", "R", "S", "T", "U", "V", "W", "X", "Y", "Z" >>

DigitChars == { "0", "1", "2", "3", "4", "5", "6", "7", "8", "9" }

IsLower(c) == \E i \in 1..Len(LowerChars) : LowerChars[i] = c

IsUpper(c) == \E i \in 1..Len(UpperChars) : UpperChars[i] = c

\* str.upper() on one character
ToUpper(c) ==
  IF IsLower(c)
  THEN UpperChars[CHOOSE i \in 1..Len(LowerChars) : LowerChars[i] = c]
  ELSE c

\* str.lower() on one character
ToLower(c) ==
  IF IsUpper(c)
  THEN LowerChars[CHOOSE i \in 1..Len(UpperChars) : UpperChars[i] = c]
  ELSE c

\* ------------------------------------------------------------------- keys
\* A key is a string; the case conversions work on its characters, which
\* Spelling gives.  The last four names are not names of the program: they
\* are what a faulty conversion would make of the column names.
Spelling ==
  [ id |-> << "i", "d" >>,
    name |-> << "n", "a", "m", "e" >>,
    industry |-> << "i", "n", "d", "u", "s", "t", "r", "y" >>,
    address |-> << "a", "d", "d", "r", "e", "s", "s" >>,
    logo_url |-> << "l", "o", "g", "o", "_", "u", "r", "l" >>,
    revenue |-> << "r", "e", "v", "e", "n", "u", "e" >>,
    employee_estimate |-> << "e", "m", "p", "l", "o", "y", "e", "e", "_", "e", "s", "t", "i", "m", "a", "t", "e" >>,
    created_at |-> << "c", "r", "e", "a", "t", "e", "d", "_", "a", "t" >>,
    updated_at |-> << "u", "p", "d", "a", "t", "e", "d", "_", "a", "t" >>,
    location |-> << "l", "o", "c", "a", "t", "i", "o", "n" >>,
    employees |-> << "e", "m", "p", "l", "o", "y", "e", "e", "s" >>,
    logoUrl |-> << "l", "o", "g", "o", "U", "r", "l" >>,
    employeeEstimate |-> << "e", "m", "p", "l", "o", "y", "e", "e", "E", "s", "t", "i", "m", "a", "t", "e" >>,
    createdAt |-> << "c", "r", "e", "a", "t", "e", "d", "A", "t" >>,
    updatedAt |-> << "u", "p", "d", "a", "t", "e", "d", "A", "t" >>,
    logo_Url |-> << "l", "o", "g", "o", "_", "U", "r", "l" >>,
    employee_Estimate |-> << "e", "m", "p", "l", "o", "y", "e", "e", "_", "E", "s", "t", "i", "m", "a", "t", "e" >>,
    created_At |-> << "c", "r", "e", "a", "t", "e", "d", "_", "A", "t" >>,
    updated_At |-> << "u", "p", "d", "a", "t", "e", "d", "_", "A", "t" >> ]

Names == DOMAIN Spelling

\* the key that is spelled chars
Named(chars) ==
  IF \E n \in Names : Spelling[n] = chars
  THEN CHOOSE n \in Names : Spelling[n] = chars
  ELSE "?"

\* internal (column) names
c_id == "id"
c_name == "name"
c_industry == "industry"
c_address == "address"
c_logo_url == "logo_url"
c_revenue == "revenue"
c_employee_estimate == "employee_estimate"
c_created_at == "created_at"
c_updated_at == "updated_at"

\* external (API) names
x_name == "name"
x_industry == "industry"
x_revenue == "revenue"
x_location == "location"
x_employees == "employees"
x_logoUrl == "logoUrl"
x_employeeEstimate == "employeeEstimate"
x_createdAt == "createdAt"
x_updatedAt == "updatedAt"

\* columns of table companies that the statements of this module name
Columns ==
  { c_id, c_name, c_industry, c_address, c_logo_url, c_revenue,
    c_employee_estimate, c_created_at, c_updated_at }

\* fields of CreateCompanyRequest and UpdateCompanyRequest
RequestFields ==
  { x_name, x_industry, x_location, x_logoUrl, x_revenue, x_employees }

\* ----------------------------------------------------------------- values
None == [t |-> "None", v |-> 0]
StrV(n) == [t |-> "str", v |-> n]
IntV(n) == [t |-> "int", v |-> n]
UuidV(n) == [t |-> "UUID", v |-> n]
DatetimeV(n) == [t |-> "datetime", v |-> n]

EmptyDict == [k \in {} |-> None]

\* dict(d, **{k: v}) : d with d[k] = v
DictSet(d, k, v) ==
  [j \in DOMAIN d \cup {k} |-> IF j = k THEN v ELSE d[j]]

\* --------------------------------------------------------- case conversion
RECURSIVE SnakeSub(_, _)
\* re.sub(r'_([a-z0-9])', lambda m: m.group(1).upper(), s) from position i
SnakeSub(s, i) ==
  IF i > Len(s) THEN << >>
  ELSE IF /\ s[i] = "_"
          /\ i < Len(s)
          /\ (IsLower(s[i + 1]) \/ s[i + 1] \in DigitChars)
       THEN << ToUpper(s[i + 1]) >> \o SnakeSub(s, i + 2)
       ELSE << s[i] >> \o SnakeSub(s, i + 1)

\* a substitution that forgets to drop the underscore
KeepSub(s) ==
  [i \in 1..Len(s) |-> IF i > 1 /\ s[i - 1] = "_" THEN ToUpper(s[i]) ELSE s[i]]

KeepSubOfName == [n \in Names |-> Named(KeepSub(Spelling[n]))]

snake_to_camel_keeps_underscore(snake_str) == KeepSubOfName[snake_str]

\* the conversion of every key, computed once
SnakeSubOfName == [n \in Names |-> Named(SnakeSub(Spelling[n], 1))]

snake_to_camel(snake_str) == SnakeSubOfName[snake_str]

\* str(uuid) and datetime.isoformat(); every other value passes through
RowValue(v) ==
  IF v.t = "UUID" THEN [t |-> "str(UUID)", v |-> v.v]
  ELSE IF v.t = "datetime" THEN [t |-> "isoformat", v |-> v.v]
  ELSE v

\* the dict is filled in iteration order, so a later key wins a clash; the
\* column names used here do not clash
row_to_camel_dict(row) ==
  LET camel_key == [k \in DOMAIN row |-> snake_to_camel(k)]
  IN [ck \in { camel_key[k] : k \in DOMAIN row } |->
        RowValue(row[CHOOSE k \in DOMAIN row : camel_key[k] = ck])]

RECURSIVE CamelSub(_, _)
\* re.sub(r'(?<!^)(?=[A-Z])', '_', k).lower() from position i
CamelSub(k, i) ==
  IF i > Len(k) THEN << >>
  ELSE (IF i > 1 /\ IsUpper(k[i]) THEN << "_" >> ELSE << >>)
         \o << ToLower(k[i]) >> \o CamelSub(k, i + 1)

\* the generic conversion of every key, computed once
CamelSubOfName == [n \in Names |-> Named(CamelSub(Spelling[n], 1))]

SnakeKey(k) ==
  IF k = x_location THEN c_address
  ELSE IF k = x_employees THEN c_employee_estimate
  ELSE CamelSubOfName[k]

camel_to_snake_dict(camel_dict) ==
  LET snake_key == [k \in DOMAIN camel_dict |-> SnakeKey(k)]
  IN [sk \in { snake_key[k] : k \in DOMAIN camel_dict } |->
        camel_dict[CHOOSE k \in DOMAIN camel_dict : snake_key[k] = sk]]

\* -------------------------------------------------------- pydantic models

\* fields CreateCompanyRequest declares without a default
RequiredCreateFields == { x_name, x_industry, x_location }

\* the order in which the bound MaxFields takes up the request fields
FieldOrder ==
  << x_location, x_logoUrl, x_name, x_employees, x_industry, x_revenue >>

SentFields == { FieldOrder[i] : i \in 1..MaxFields }

\* the value a request carries for a field of the declared type; a row that
\* was in the table before holds payload 0, so a sent value is always new
FieldValues(k) ==
  IF k \in { x_revenue, x_employees } THEN { IntV(1) } ELSE { StrV(1) }

\* request.model_dump(exclude_unset=True) of a validated body whose fields
\* are S: a field that was sent as null is kept, with value None
BodiesOver(S, nullable) ==
  { b \in [S -> { None } \cup UNION { FieldValues(k) : k \in S }] :
      \A k \in S : \/ b[k] \in FieldValues(k)
                   \/ b[k] = None /\ k \in nullable }

UpdateBodies == UNION { BodiesOver(S, S) : S \in SUBSET SentFields }

CreateBodies ==
  UNION { BodiesOver(RequiredCreateFields \cup S, S) :
            S \in SUBSET (SentFields \ RequiredCreateFields) }

\* first of the keys (alias, then field name) that the data holds
Pick(data, alias, name) ==
  IF alias \in DOMAIN data THEN data[alias]
  ELSE IF name \in DOMAIN data THEN data[name]
  ELSE None

\* pydantic parses the string forms back into UUID and datetime
Parse(v) ==
  IF v.t = "str(UUID)" THEN UuidV(v.v)
  ELSE IF v.t = "isoformat" THEN DatetimeV(v.v)
  ELSE v

\* whether Company.model_validate(data) accepts the data
CompanyValid(data) ==
  /\ Parse(Pick(data, c_id, c_id)).t = "UUID"
  /\ Pick(data, c_name, c_name).t = "str"
  /\ Parse(Pick(data, x_createdAt, x_createdAt)).t = "datetime"
  /\ Parse(Pick(data, x_updatedAt, x_updatedAt)).t = "datetime"

\* Company.model_validate(data), populate_by_name = True
Company(data) ==
  [ id |-> Parse(Pick(data, c_id, c_id)),
    name |-> Pick(data, c_name, c_name),
    industry |-> Pick(data, c_industry, c_industry),
    location |-> Pick(data, c_address, x_location),
    logoUrl |-> Pick(data, x_logoUrl, x_logoUrl),
    revenue |-> Pick(data, c_revenue, c_revenue),
    employees |-> Pick(data, x_employeeEstimate, x_employees),
    createdAt |-> Parse(Pick(data, x_createdAt, x_createdAt)),
    updatedAt |-> Parse(Pick(data, x_updatedAt, x_updatedAt)) ]

CompanyListItemValid(data) ==
  /\ Parse(Pick(data, c_id, c_id)).t = "UUID"
  /\ Pick(data, c_name, c_name).t = "str"

CompanyListItem(data) ==
  [ id |-> Parse(Pick(data, c_id, c_id)),
    name |-> Pick(data, c_name, c_name),
    industry |-> Pick(data, c_industry, c_industry),
    location |-> Pick(data, c_address, x_location),
    logoUrl |-> Pick(data, x_logoUrl, x_logoUrl),
    employees |-> Pick(data, x_employeeEstimate, x_employees) ]

NoRet == [kind |-> "None"]
GetCompanyResponse(company) ==
  [kind |-> "GetCompanyResponse", company |-> company]
ListCompaniesResponse(companies) ==
  [kind |-> "ListCompaniesResponse", companies |-> companies]

NoExc == [kind |-> "none", status |-> 0]
HTTPException(status_code) == [kind |-> "HTTPException", status |-> status_code]
Raised(kind) == [kind |-> kind, status |-> 0]

\* ------------------------------------------------------------ the table

\* SELECT id, name, industry, address, logo_url, employee_estimate
ListColumns ==
  { c_id, c_name, c_industry, c_address, c_logo_url, c_employee_estimate }

Project(row, cols) == [c \in cols |-> row[c]]

\* WHERE id = %s
Matching(tbl, id) == { k \in DOMAIN tbl : tbl[k][c_id] = id }

\* INSERT INTO companies (<columns of fields>) VALUES (...): the columns
\* that are not listed are NULL
SqlInsert(tbl, key, fields) ==
  [k \in DOMAIN tbl \cup {key} |->
     IF k = key
     THEN [c \in Columns |-> IF c \in DOMAIN fields THEN fields[c] ELSE None]
     ELSE tbl[k]]

\* UPDATE companies SET <columns of fields> WHERE id = %s
SqlUpdate(tbl, id, fields) ==
  [k \in DOMAIN tbl |->
     IF tbl[k][c_id] = id
     THEN [c \in Columns |-> IF c \in DOMAIN fields THEN fields[c] ELSE tbl[k][c]]
     ELSE tbl[k]]

\* DELETE FROM companies WHERE id = %s
SqlDelete(tbl, id) ==
  [k \in DOMAIN tbl \ Matching(tbl, id) |-> tbl[k]]

\* ORDER BY name ASC: the orders of the rows that the clause allows
NameOrders(tbl) ==
  { s \in [1..Cardinality(DOMAIN tbl) -> DOMAIN tbl] :
      /\ \A i, j \in DOMAIN s : i # j => s[i] # s[j]
      /\ \A i, j \in DOMAIN s : i < j => tbl[s[i]][c_name].v <= tbl[s[j]][c_name].v }

\* ----------------------------------------------- the handlers' field sets
allowed_columns == Columns

allowed_update_columns == Columns \ { c_id, c_created_at }

\* {k: v for k, v in d.items() if k in allowed and v is not None}
FilterFields(d, allowed) ==
  [k \in { j \in DOMAIN d : j \in allowed /\ d[j] # None } |-> d[k]]

\* create_company: company_data_snake with id and timestamps, filtered
insert_data(body, new_id, now) ==
  FilterFields(
    DictSet(DictSet(DictSet(camel_to_snake_dict(body), c_id, new_id),
                    c_created_at, now), c_updated_at, now),
    allowed_columns)

\* a filter that keeps the fields whose value is None
update_fields_keeps_none(body, now) ==
  LET d == DictSet(camel_to_snake_dict(body), c_updated_at, now)
  IN [k \in { j \in DOMAIN d : j \in allowed_update_columns } |-> d[k]]

\* the field set of create_company used for the update
update_fields_as_insert(body, now) ==
  FilterFields(
    DictSet(DictSet(camel_to_snake_dict(body), c_created_at, now),
            c_updated_at, now),
    allowed_columns)

\* update_company: update_data_snake with updated_at, filtered
update_fields(body, now) ==
  FilterFields(DictSet(camel_to_snake_dict(body), c_updated_at, now),
               allowed_update_columns)

\* a check that only looks for an empty field set
update_rejected_if_empty(body, fields) ==
  \/ DOMAIN camel_to_snake_dict(body) = {}
  \/ DOMAIN fields = {}

\* update_company raises 400 before it opens a connection
update_rejected(body, fields) ==
  \/ DOMAIN camel_to_snake_dict(body) = {}
  \/ DOMAIN fields = {}
  \/ \A k \in DOMAIN fields : k = c_updated_at

\* ------------------------------------------------------------------ state
VARIABLES
  table,      \* committed rows of table companies: row key -> row
  clock,      \* the last value datetime.now() returned
  nextId,     \* payload of the next uuid.uuid4()
  stack,      \* the handler calls in progress, innermost last
  openConns,  \* connections that are open
  resp,       \* what the last finished request gave the client
  req,        \* the request being served, or served last
  pre,        \* table when that request began
  acquired,   \* connections that request has opened
  executed,   \* statements that request has sent
  faulted,    \* whether the store or the configuration failed during it
  conv_in,    \* a dictionary handed to row_to_camel_dict
  conv_out,   \* what row_to_camel_dict returned for it
  conv_pc     \* "in" before that call, "out" after it

vars ==
  << table, clock, nextId, stack, openConns, resp, req, pre, acquired,
     executed, faulted, conv_in, conv_out, conv_pc >>

\* identifiers a client asks for: those of the initial rows and one more
TargetIds == { UuidV(n) : n \in 1..(MaxRows + 1) }

\* a row as an earlier run of the service, or an import, left it
InitRow(k, full) ==
  [c \in Columns |->
     IF c = c_id THEN UuidV(k)
     ELSE IF c = c_name THEN StrV(0)
     ELSE IF c \in { c_created_at, c_updated_at } THEN DatetimeV(0)
     ELSE IF ~full THEN None
     ELSE IF c \in { c_revenue, c_employee_estimate } THEN IntV(0)
     ELSE StrV(0)]

\* the odd rows hold a value in every column, the even rows only in the
\* required ones
InitTables ==
  { [k \in 1..n |-> InitRow(k, k % 2 = 1)] : n \in 0..MaxRows }

NoResp == [status |-> 0, body |-> NoRet]
NoReq == [op |-> "none", id |-> None, body |-> EmptyDict]

Init ==
  /\ table \in InitTables
  /\ clock = 0
  /\ nextId = MaxRows + 2
  /\ stack = << >>
  /\ openConns = 0
  /\ resp = NoResp
  /\ req = NoReq
  /\ pre = table
  /\ acquired = 0
  /\ executed = 0
  /\ faulted = FALSE
  /\ conv_in = EmptyDict
  /\ conv_out = EmptyDict
  /\ conv_pc = "in"

\* a call of a handler that has not yet entered its with block
Frame(fn, id, fields, commit) ==
  [fn |-> fn, pc |-> "enter", id |-> id, fields |-> fields,
   commit |-> commit, conn |-> FALSE, tx |-> EmptyDict,
   exc |-> NoExc, ret |-> NoRet]

Idle == stack = << >>
top == stack[Len(stack)]
SetTop(f) == [stack EXCEPT ![Len(stack)] = f]

\* the client sends a request
Begin(op, id, body) ==
  /\ Idle
  /\ req' = [op |-> op, id |-> id, body |-> body]
  /\ pre' = table
  /\ acquired' = 0
  /\ executed' = 0
  /\ faulted' = FALSE
  /\ UNCHANGED << table, openConns, conv_in, conv_out, conv_pc >>

\* the request is refused before the try block
Refuse(status_code) ==
  /\ stack' = << >>
  /\ resp' = [status |-> status_code, body |-> NoRet]

Accept(frame) ==
  /\ stack' = << frame >>
  /\ resp' = NoResp

StartList ==
  /\ Begin("list", None, EmptyDict)
  /\ Accept(Frame("list_companies", None, EmptyDict, FALSE))
  /\ UNCHANGED << clock, nextId >>

StartGet ==
  \E id \in TargetIds :
    /\ Begin("get", id, EmptyDict)
    /\ Accept(Frame("get_company", id, EmptyDict, FALSE))
    /\ UNCHANGED << clock, nextId >>

StartCreate ==
  \E body \in CreateBodies :
    /\ clock < MaxClock
    /\ Begin("create", None, body)
    /\ clock' = clock + 1
    /\ nextId' = nextId + 1
    /\ LET fields == insert_data(body, UuidV(nextId), DatetimeV(clock + 1))
       IN IF c_name \notin DOMAIN fields
          THEN Refuse(400)
          ELSE Accept(Frame("create_company", UuidV(nextId), fields, TRUE))

StartUpdate ==
  \E id \in TargetIds, body \in UpdateBodies :
    /\ Begin("update", id, body)
    /\ UNCHANGED nextId
    /\ IF DOMAIN camel_to_snake_dict(body) = {}
       THEN /\ Refuse(400)
            /\ UNCHANGED clock
       ELSE /\ clock < MaxClock
            /\ clock' = clock + 1
            /\ LET fields == update_fields(body, DatetimeV(clock + 1))
               IN IF update_rejected(body, fields)
                  THEN Refuse(400)
                  ELSE Accept(Frame("update_company", id, fields, TRUE))

StartDelete ==
  \E id \in TargetIds :
    /\ Begin("delete", id, EmptyDict)
    /\ Accept(Frame("delete_company", id, EmptyDict, TRUE))
    /\ UNCHANGED << clock, nextId >>

\* get_db_cursor enters get_db_connection and makes the cursor
Enter ==
  /\ ~Idle
  /\ top.pc = "enter"
  /\ \E outcome \in { "connected", "ValueError", "OperationalError" } :
       IF outcome = "connected"
       THEN /\ stack' = SetTop([top EXCEPT !.pc = "body", !.conn = TRUE,
                                           !.tx = table])
            /\ openConns' = openConns + 1
            /\ acquired' = acquired + 1
            /\ UNCHANGED faulted
       ELSE /\ stack' = SetTop([top EXCEPT !.pc = "exit", !.exc = Raised(outcome)])
            /\ faulted' = TRUE
            /\ UNCHANGED << openConns, acquired >>
  /\ UNCHANGED << table, clock, nextId, resp, req, pre, executed, conv_in,
                  conv_out, conv_pc >>

\* cursor.execute raises psycopg2.Error
ExecuteFails ==
  /\ stack' = SetTop([top EXCEPT !.pc = "exit", !.exc = Raised("psycopg2.Error")])
  /\ faulted' = TRUE

InBody(fn) ==
  /\ ~Idle
  /\ top.fn = fn
  /\ top.pc = "body"
  /\ executed' = executed + 1
  /\ UNCHANGED << table, clock, nextId, openConns, resp, req, pre, acquired,
                  conv_in, conv_out, conv_pc >>

ListBody ==
  /\ InBody("list_companies")
  /\ \/ ExecuteFails
     \/ /\ UNCHANGED faulted
        /\ \E order \in NameOrders(top.tx) :
             LET data == [i \in DOMAIN order |->
                            row_to_camel_dict(Project(top.tx[order[i]], ListColumns))]
             IN IF \A i \in DOMAIN data : CompanyListItemValid(data[i])
                THEN stack' = SetTop([top EXCEPT !.pc = "exit",
                       !.ret = ListCompaniesResponse(
                                 [i \in DOMAIN data |-> CompanyListItem(data[i])])])
                ELSE stack' = SetTop([top EXCEPT !.pc = "exit",
                                                 !.exc = Raised("ValidationError")])

\* what get_company makes of the rows its SELECT sees
GetOutcome(f, tbl) ==
  IF Matching(tbl, f.id) = {}
  THEN { [f EXCEPT !.pc = "exit", !.exc = HTTPException(404)] }
  ELSE { LET data == row_to_camel_dict(tbl[k])
         IN IF CompanyValid(data)
            THEN [f EXCEPT !.pc = "exit", !.ret = GetCompanyResponse(Company(data))]
            ELSE [f EXCEPT !.pc = "exit", !.exc = Raised("ValidationError")]
         : k \in Matching(tbl, f.id) }

GetBody ==
  /\ InBody("get_company")
  /\ \/ ExecuteFails
     \/ /\ UNCHANGED faulted
        /\ \E f \in GetOutcome(top, top.tx) : stack' = SetTop(f)

\* the handler calls get_company(id) from inside its with block
Call(f, id) ==
  stack' = Append(SetTop([f EXCEPT !.pc = "call"]),
                  Frame("get_company", id, EmptyDict, FALSE))

CreateBody ==
  /\ InBody("create_company")
  /\ \/ ExecuteFails
     \/ /\ UNCHANGED faulted
        /\ Call([top EXCEPT !.tx = SqlInsert(top.tx, top.id.v, top.fields)],
                top.fields[c_id])

UpdateBody ==
  /\ InBody("update_company")
  /\ \/ ExecuteFails
     \/ /\ UNCHANGED faulted
        /\ IF Matching(top.tx, top.id) = {}
           THEN stack' = SetTop([top EXCEPT !.pc = "exit",
                                            !.exc = HTTPException(404)])
           ELSE Call([top EXCEPT !.tx = SqlUpdate(top.tx, top.id, top.fields)],
                     top.id)

DeleteBody ==
  /\ InBody("delete_company")
  /\ \/ ExecuteFails
     \/ /\ UNCHANGED faulted
        /\ IF Matching(top.tx, top.id) = {}
           THEN stack' = SetTop([top EXCEPT !.pc = "exit",
                                            !.exc = HTTPException(404)])
           ELSE stack' = SetTop([top EXCEPT !.pc = "exit",
                                            !.tx = SqlDelete(top.tx, top.id),
                                            !.exc = Raised("NameError")])

\* a commit placed in the finally clause
CommitsAlways(f) == f.conn /\ f.commit

\* get_db_cursor reaches conn.commit() only when the with body did not raise
Commits(f) == f.conn /\ f.commit /\ f.exc = NoExc

\* a close placed after the yield instead of in the finally clause
ClosesOnSuccess(f) == f.conn /\ f.exc = NoExc

\* get_db_connection closes the connection it made
Closes(f) == f.conn

\* get_db_cursor turns whatever was raised inside it into a 500
CursorRaise(exc) == IF exc = NoExc THEN NoExc ELSE HTTPException(500)

\* the except clauses of a handler
HandlerRaise(exc) ==
  IF exc = NoExc THEN NoExc
  ELSE IF exc.kind = "HTTPException" THEN exc
  ELSE HTTPException(500)

\* status_code of the route decorator
SuccessStatus(fn) ==
  IF fn = "create_company" THEN 201
  ELSE IF fn = "delete_company" THEN 204
  ELSE 200

\* the with block of a handler is left: commit, close, raise
CursorExit ==
  /\ ~Idle
  /\ top.pc = "exit"
  /\ \E commit_ok \in BOOLEAN :
       LET f == top
           exc == IF Commits(f) /\ ~commit_ok THEN Raised("psycopg2.Error") ELSE f.exc
       IN /\ ~commit_ok => Commits(f)
          /\ table' = IF Commits(f) /\ commit_ok THEN f.tx ELSE table
          /\ openConns' = IF Closes(f) THEN openConns - 1 ELSE openConns
          /\ faulted' = (faulted \/ ~commit_ok)
          /\ stack' = SetTop([f EXCEPT !.pc = "except",
                                       !.conn = f.conn /\ ~Closes(f),
                                       !.tx = EmptyDict,
                                       !.exc = CursorRaise(exc),
                                       !.ret = IF exc = NoExc THEN f.ret ELSE NoRet])
  /\ UNCHANGED << clock, nextId, resp, req, pre, acquired, executed, conv_in,
                  conv_out, conv_pc >>

\* get_company returns to the handler that called it
ReturnToCaller ==
  /\ Len(stack) > 1
  /\ top.pc = "except"
  /\ LET n == Len(stack) - 1
     IN stack' = [SubSeq(stack, 1, n) EXCEPT
                    ![n] = [stack[n] EXCEPT !.pc = "exit",
                                            !.exc = HandlerRaise(top.exc),
                                            !.ret = top.ret]]
  /\ UNCHANGED << table, clock, nextId, openConns, resp, req, pre, acquired,
                  executed, faulted, conv_in, conv_out, conv_pc >>

\* the handler returns to the framework, which answers the client
ReturnToClient ==
  /\ Len(stack) = 1
  /\ top.pc = "except"
  /\ stack' = << >>
  /\ resp' = [status |-> IF HandlerRaise(top.exc) = NoExc
                         THEN SuccessStatus(top.fn)
                         ELSE HandlerRaise(top.exc).status,
              body |-> top.ret]
  /\ UNCHANGED << table, clock, nextId, openConns, req, pre, acquired,
                  executed, faulted, conv_in, conv_out, conv_pc >>

Next ==
  \/ StartList
  \/ StartGet
  \/ StartCreate
  \/ StartUpdate
  \/ StartDelete
  \/ Enter
  \/ ListBody
  \/ GetBody
  \/ CreateBody
  \/ UpdateBody
  \/ DeleteBody
  \/ CursorExit
  \/ ReturnToCaller
  \/ ReturnToClient

Spec == Init /\ [][Next]_vars

\* ------------------------------------------- the conversion on its own
ColumnValues(c) ==
  IF c = c_id THEN { UuidV(1) }
  ELSE IF c \in { c_created_at, c_updated_at } THEN { DatetimeV(1) }
  ELSE IF c \in { c_revenue, c_employee_estimate } THEN { None, IntV(1) }
  ELSE { None, StrV(1) }

\* internal-convention mappings: some columns of a row
ConvInputs ==
  UNION { { m \in [S -> UNION { ColumnValues(c) : c \in S }] :
              \A c \in S : m[c] \in ColumnValues(c) } :
            S \in { T \in SUBSET Columns : Cardinality(T) <= MaxDictKeys } }

InitConv ==
  /\ table = EmptyDict
  /\ clock = 0
  /\ nextId = MaxRows + 2
  /\ stack = << >>
  /\ openConns = 0
  /\ resp = NoResp
  /\ req = NoReq
  /\ pre = table
  /\ acquired = 0
  /\ executed = 0
  /\ faulted = FALSE
  /\ conv_in \in ConvInputs
  /\ conv_out = EmptyDict
  /\ conv_pc = "in"

Externalize ==
  /\ conv_pc = "in"
  /\ conv_pc' = "out"
  /\ conv_out' = row_to_camel_dict(conv_in)
  /\ UNCHANGED << table, clock, nextId, stack, openConns, resp, req, pre,
                  acquired, executed, faulted, conv_in >>

NextConv == Externalize

SpecConv == InitConv /\ [][NextConv]_vars

\* ----------------------------------------------------------------- claims
Answered == Idle /\ resp # NoResp

\* the body changes something: some field is supplied with a value
Substantive(body) == \E f \in DOMAIN body : body[f] # None

\* the responses a Get on identifier id may give when the store holds tbl
GetResponses(tbl, id) ==
  { f.ret : f \in GetOutcome(Frame("get_company", id, EmptyDict, FALSE), tbl) }

\* the column the external field f is stored in (specification, section 2)
ColumnOfField(f) ==
  IF f = "location" THEN "address"
  ELSE IF f = "employees" THEN "employee_estimate"
  ELSE IF f = "logoUrl" THEN "logo_url"
  ELSE f

\* C1: a Get, a substantive Update or a Delete whose identifier is not in
\* the store is answered with status 404 (the store itself working).
C1_NotFoundIs404 ==
  ( /\ Answered
    /\ req.op \in { "get", "update", "delete" }
    /\ req.op = "update" => Substantive(req.body)
    /\ Matching(pre, req.id) = {}
    /\ ~faulted )
  => resp.status = 404

\* C2: a valid Create is answered 201 with a record that carries the
\* generated identifier, the record is in the store, and a Get on that
\* identifier right afterwards gives the same record.
C2_CreateThenGet ==
  ( Answered /\ req.op = "create" /\ ~faulted )
  => /\ resp.status = 201
     /\ resp.body.kind = "GetCompanyResponse"
     /\ Matching(table, resp.body.company.id) # {}
     /\ GetResponses(table, resp.body.company.id) = { resp.body }

\* C3: a Delete of an identifier that is in the store is answered 204
\* without a body, and the record is gone from the store.
C3_DeleteRemoves ==
  ( /\ Answered
    /\ req.op = "delete"
    /\ Matching(pre, req.id) # {}
    /\ ~faulted )
  => /\ resp.status = 204
     /\ resp.body = NoRet
     /\ Matching(table, req.id) = {}

\* C4: the record a successful Update returns is the record as stored once
\* the update took effect: it carries every value the request supplied and
\* the new updated_at, and a Get right afterwards gives the same record.
C4_UpdateReturnsStored ==
  ( Answered /\ req.op = "update" /\ resp.status = 200 )
  => /\ GetResponses(table, req.id) = { resp.body }
     /\ resp.body.company.updatedAt = DatetimeV(clock)
     /\ \A f \in DOMAIN req.body :
          req.body[f] # None => resp.body.company[f] = req.body[f]

\* C5: an Update whose body is empty or holds only nulls is answered 400
\* at once: no connection was opened, no statement sent, the store is as
\* it was.
C5_EmptyUpdateRefused ==
  ( req.op = "update" /\ ~Substantive(req.body) )
  => /\ Idle
     /\ resp.status = 400
     /\ table = pre
     /\ acquired = 0
     /\ executed = 0
     /\ openConns = 0

C5_Witness ==
  /\ req.op = "update"
  /\ DOMAIN req.body # {}
  /\ ~Substantive(req.body)
  /\ Matching(table, req.id) # {}
  /\ resp.status = 400

\* C6: no step changes the id or the created_at of a row that stays in the
\* store.
C6_IdAndCreatedAtKept ==
  [][\A k \in DOMAIN table \cap DOMAIN table' :
       /\ table'[k][c_id] = table[k][c_id]
       /\ table'[k][c_created_at] = table[k][c_created_at]]_vars

C6_Witness ==
  /\ Answered
  /\ req.op = "update"
  /\ resp.status = 200
  /\ table # pre

\* C7: from the moment an Update begins, the store differs from what it
\* was only in the target row, and there only in updated_at and in the
\* columns of the fields the request supplied with a value.
C7_UpdateFrame ==
  req.op = "update"
  => /\ DOMAIN table = DOMAIN pre
     /\ \A k \in DOMAIN table : \A c \in Columns :
          table[k][c] # pre[k][c]
          => /\ pre[k][c_id] = req.id
             /\ \/ c = c_updated_at
                \/ \E f \in DOMAIN req.body :
                     req.body[f] # None /\ ColumnOfField(f) = c

C7_Witness ==
  /\ Answered
  /\ req.op = "update"
  /\ resp.status = 200
  /\ table # pre
  /\ Cardinality(DOMAIN table) > 1
  /\ \E f \in DOMAIN req.body :
       /\ req.body[f] = None
       /\ \E k \in Matching(table, req.id) : table[k][ColumnOfField(f)] # None

C9_ConnectionsReleased ==
  /\ openConns = Cardinality({ i \in DOMAIN stack : stack[i].conn })
  /\ \A i \in DOMAIN stack : stack[i].pc = "except" => ~stack[i].conn
  /\ Idle => openConns = 0

C9_Witness ==
  /\ Answered
  /\ req.op \in { "create", "update" }
  /\ acquired = 2
  /\ resp.status = 500
  /\ faulted

\* C10: while Create, Update or Delete is served the store differs from
\* what it was only once the handler's with block was left without an
\* exception; after an error answer the store is what it was.
C10_NoPartialSuccess ==
  ( req.op \in { "create", "update", "delete" } /\ table # pre )
  => IF Idle
     THEN resp.status \in { 200, 201, 204 }
     ELSE Len(stack) = 1 /\ top.pc = "except" /\ top.exc = NoExc

C10_Witness ==
  /\ Answered
  /\ req.op = "delete"
  /\ Matching(pre, req.id) # {}
  /\ executed = 1
  /\ resp.status = 500
  /\ ~faulted

====
